---- MODULE Spec2Model ----
(***************************************************************************)
(* InvertableOperator<T> (include/bout/invertable_operator.hxx): a session *)
(* that inverts a field -> field operator with a matrix-free Krylov solve, *)
(* and the two marshalling functions fieldToPetscVec / petscVecToField.    *)
(*                                                                         *)
(* Field values are integers (exact arithmetic).  A field is a record      *)
(* [mesh, data] whose data is indexed 1..n in the mesh's iteration order;  *)
(* a PETSc Vec is a record [st, data] whose data is the C array 0..n-1.    *)
(***************************************************************************)
EXTENDS Integers, Sequences, FiniteSets, TLC

VARIABLES
  operatorFunction, \* the bound std::function (by name)
  localmesh,        \* Mesh* the session creates its fields on
  doneSetup,        \* bool doneSetup
  matOperator,      \* Mat matOperator (the shell matrix)
  rhs, lhs,         \* Vec rhs, lhs
  ksp,              \* KSP ksp
  CHECK,            \* the build's CHECK level
  last,             \* what the latest call on the session did and gave back
  mVec,             \* a caller-owned Vec the marshalling functions are used on
  mSrc,             \* the field last packed into mVec
  mDst,             \* the field last unpacked from mVec
  mLast,            \* what the latest marshalling call did
  sessions,         \* two sessions of one process: their opt section and solver options
  optionsDB,        \* the backend's options database of the process, by prefix
  ranks,            \* the processes of one session, each inside its own invert() calls
  coll              \* the collective solves of those processes, by call number

vars == <<operatorFunction, localmesh, doneSetup, matOperator, rhs, lhs, ksp,
          CHECK, last, mVec, mSrc, mDst, mLast, sessions, optionsDB, ranks, coll>>

sessionVars == <<operatorFunction, localmesh, doneSetup, matOperator, rhs, lhs, ksp, CHECK>>
marshalVars == <<mVec, mSrc, mDst, mLast>>
configVars == <<sessions, optionsDB>>
rankVars == <<ranks, coll>>

-----------------------------------------------------------------------------
(* Bounds *)

\* local element count of the global mesh
LocalSize == 4
\* iteration limit of the Krylov solve
MaxIts == 2
\* number of invert() calls each process of a session makes
MaxCalls == 2

-----------------------------------------------------------------------------
(* Meshes and fields *)

GlobalMesh == "mesh"
Meshes == {"mesh", "small", "large"}

\* number of local elements of a field on mesh m
MeshSize(m) ==
  CASE m = "mesh" -> LocalSize
    [] m = "small" -> LocalSize - 1
    [] m = "large" -> LocalSize + 1
    [] OTHER -> 0

\* the indices of a field in iteration order: for (const auto &i : field)
Region(m) == [k \in 1..MeshSize(m) |-> k]

NoField == [mesh |-> "none", data |-> << >>]

\* contents of an element that has been allocated and not written
Unset == -1

\* T f(localmesh); f.allocate();
Allocate(m) == [mesh |-> m, data |-> [i \in 1..MeshSize(m) |-> Unset]]

\* T(BoutReal val): the field an integer status converts to, on the global mesh
FieldFromScalar(val) == [mesh |-> GlobalMesh, data |-> [i \in 1..MeshSize(GlobalMesh) |-> val]]

\* the fields callers pass in: all zero, 2*index, and 2 at the first element
ZeroField(m) == [mesh |-> m, data |-> [i \in 1..MeshSize(m) |-> 0]]
RampField(m) == [mesh |-> m, data |-> [i \in 1..MeshSize(m) |-> 2 * i]]
SpikeField(m) == [mesh |-> m, data |-> [i \in 1..MeshSize(m) |-> IF i = 1 THEN 2 ELSE 0]]
FieldInputs(m) == {ZeroField(m), RampField(m), SpikeField(m)}
AllFieldInputs == UNION {FieldInputs(m) : m \in Meshes}
\* the fields passed to a session: those of its mesh, and one of a smaller mesh
SessionInputs == FieldInputs(GlobalMesh) \cup {RampField("small")}

-----------------------------------------------------------------------------
(* Vecs *)

UninitVec == [st |-> "uninit", data |-> [k \in {} |-> 0]]
NewVec(n) == [st |-> "live", data |-> [k \in 0..(n - 1) |-> 0]]
VecLen(v) == Cardinality(DOMAIN v.data)

-----------------------------------------------------------------------------
(* Marshalling *)

\* vecData[counter] = in[i]; counter++  -- for every i of the field, in order.
\* A write past the end of the array lands outside the Vec.
RECURSIVE PackLoop(_, _, _, _)
PackLoop(in, order, vecData, counter) ==
  IF order = << >> THEN vecData
  ELSE PackLoop(in, Tail(order),
                IF counter \in DOMAIN vecData
                  THEN [vecData EXCEPT ![counter] = in.data[Head(order)]]
                  ELSE vecData,
                counter + 1)

\* the packing loop with its counter started at 1 instead of 0
fieldToPetscVecFromOne(in, out) ==
  [out EXCEPT !.data = PackLoop(in, Region(in.mesh), out.data, 1)]

fieldToPetscVec(in, out) ==
  [out EXCEPT !.data = PackLoop(in, Region(in.mesh), out.data, 0)]

\* out[i] = vecData[counter]; counter++  -- for every i of the field, in order.
\* A read past the end of the array gives whatever lies there (junk).
RECURSIVE UnpackLoop(_, _, _, _, _)
UnpackLoop(vecData, order, outData, counter, junk) ==
  IF order = << >> THEN outData
  ELSE UnpackLoop(vecData, Tail(order),
                  [outData EXCEPT ![Head(order)] =
                      IF counter \in DOMAIN vecData THEN vecData[counter] ELSE junk],
                  counter + 1, junk)

petscVecToField(in, out, junk) ==
  [out EXCEPT !.data = UnpackLoop(in.data, Region(out.mesh), out.data, 0, junk)]

\* the loop of either function indexes the array past its end
OutOfBounds(field, vec) == MeshSize(field.mesh) > VecLen(vec)

\* number of array elements the loop of either function touches inside the Vec
Copied(field, vec) ==
  IF MeshSize(field.mesh) < VecLen(vec) THEN MeshSize(field.mesh) ELSE VecLen(vec)

-----------------------------------------------------------------------------
(* The operator function *)

\* the functions a caller binds: the default identity, multiplication by 2,
\* the map to the zero field, and the reversal of the element order
OperatorFunctions == {"identity", "twice", "zero", "reverse"}

\* a bound function that raises an error instead of returning a field, and
\* what stands for its result
ThrowingFunction == "throws"
Thrown == [mesh |-> "thrown", data |-> << >>]

\* template <typename T> T identity(const T &in) { return in; }
identity(in) == in

\* operatorFunction(input), for the function named f
ApplyFunc(f, input) ==
  CASE f = "identity" -> identity(input)
    [] f = "twice" -> [input EXCEPT !.data = [i \in DOMAIN input.data |-> 2 * input.data[i]]]
    [] f = "zero" -> [input EXCEPT !.data = [i \in DOMAIN input.data |-> 0]]
    [] f = "reverse" ->
         [input EXCEPT !.data =
            [i \in DOMAIN input.data |-> input.data[Cardinality(DOMAIN input.data) + 1 - i]]]
    [] f = ThrowingFunction -> Thrown
    [] OTHER -> input

\* an operator() that calls the constructor's default instead of the bound function
ApplyOperatorDefault(input) == identity(input)

\* T operator()(const T& input) { return operatorFunction(input); }
ApplyOperator(input) == ApplyFunc(operatorFunction, input)

\* the multiply registered on the shell matrix: v2 = pack(f(unpack(v1)))
functionWrapper(m, v1, v2) ==
  LET tmpField == petscVecToField(v1, Allocate(localmesh), Unset)
      tmpField2 == ApplyOperator(tmpField)
  IN IF tmpField2 = Thrown THEN v2 ELSE fieldToPetscVec(tmpField2, v2)

\* a functionWrapper that catches what the function raises and goes on
WrapperCatches == FALSE

\* functionWrapper has no try block: what the function raises leaves it, before
\* fieldToPetscVec(tmpField2, v2) and before return ierr
WrapperPropagates == TRUE

\* the multiply of Vec v1 ends in an error raised by the bound function
MultiplyThrows(v1) ==
  WrapperPropagates /\ ApplyOperator(petscVecToField(v1, Allocate(localmesh), Unset)) = Thrown

-----------------------------------------------------------------------------
(* The backend: status codes, convergence reasons, the Krylov solve *)

\* non-zero PetscErrorCode values a backend call can report
PetscErrs == {55}
\* KSPConvergedReason values: > 0 converged, <= 0 not
KSPReason == [rtol |-> 2, atol |-> 3, iterating |-> 0, its |-> -3, breakdown |-> -5]
\* values an uninitialised KSPConvergedReason can hold
JunkReasons == {-3, 2}

VecIsZero(v) == \A k \in DOMAIN v.data : v.data[k] = 0

\* <<b, A b, A A b, ...>>: n multiplies through the shell matrix, K[k + 1] = A^k b
RECURSIVE KrylovVecs(_, _)
KrylovVecs(b, n) ==
  IF n = 0 THEN <<b>>
  ELSE LET K == KrylovVecs(b, n - 1)
       IN Append(K, functionWrapper(matOperator, K[n], NewVec(VecLen(b))))

\* sum over j = 1..m of c[j] * (A^(j - 1 + off) b)[i]
RECURSIVE KrylovSum(_, _, _, _, _)
KrylovSum(c, K, m, off, i) ==
  IF m = 0 THEN 0
  ELSE c[m] * K[m + off].data[i] + KrylovSum(c, K, m - 1, off, i)

\* the combinations x = sum (c[j]/2) K[j-1] of the first m Krylov vectors, with
\* coefficients 0, 1/2 and 1, that solve A x = b exactly
KrylovSolutions(K, b, m) ==
  {c \in [1..m -> {0, 1, 2}] :
     \A i \in DOMAIN b.data :
        /\ KrylovSum(c, K, m, 1, i) = 2 * b.data[i]
        /\ KrylovSum(c, K, m, 0, i) % 2 = 0}

\* iteration m of the solve: converged when the Krylov space holds a solution,
\* broken down when the space stops growing, out of iterations at MaxIts
RECURSIVE KSPIterate(_, _, _)
KSPIterate(K, b, m) ==
  LET sols == KrylovSolutions(K, b, m) IN
  IF sols # {}
    THEN LET c == CHOOSE c \in sols : TRUE
         IN [x |-> [st |-> "live",
                    data |-> [i \in DOMAIN b.data |-> KrylovSum(c, K, m, 0, i) \div 2]],
             reason |-> KSPReason.rtol, its |-> m]
  ELSE IF VecIsZero(K[m + 1])
    THEN [x |-> NewVec(VecLen(b)), reason |-> KSPReason.breakdown, its |-> m]
  ELSE IF m >= MaxIts
    THEN [x |-> NewVec(VecLen(b)), reason |-> KSPReason.its, its |-> m]
  ELSE KSPIterate(K, b, m + 1)

\* a solve that adds its solution to what x held, instead of zeroing the guess
KSPSolveOntoGuess(b, x, fault) ==
  IF fault # 0 \/ b.st # "live" \/ x.st # "live"
    THEN [ierr |-> IF fault # 0 THEN fault ELSE CHOOSE e \in PetscErrs : TRUE,
          x |-> x, reason |-> KSPReason.iterating, its |-> 0, thrown |-> FALSE]
  ELSE IF VecIsZero(b)
    THEN [ierr |-> 0, x |-> x, reason |-> KSPReason.atol, its |-> 0, thrown |-> FALSE]
  ELSE IF MultiplyThrows(b)
    THEN [ierr |-> 0, x |-> x, reason |-> KSPReason.iterating, its |-> 0, thrown |-> TRUE]
  ELSE LET K == KrylovVecs(b, MaxIts)
           r == KSPIterate(K, b, 1)
       IN [ierr |-> 0,
           x |-> [x EXCEPT !.data = [i \in DOMAIN x.data |-> x.data[i] + r.x.data[i]]],
           reason |-> r.reason, its |-> r.its, thrown |-> FALSE]

\* KSPSolve(ksp, b, x): fault # 0 is an error status reported before the solve
\* ran (x untouched); otherwise the initial guess is zeroed and the solve runs.
\* thrown: the first multiply ended in an error of the bound function, which
\* leaves KSPSolve with it (no status; x zeroed, the reason not yet set).
KSPSolve(b, x, fault) ==
  IF fault # 0 \/ b.st # "live" \/ x.st # "live"
    THEN [ierr |-> IF fault # 0 THEN fault ELSE CHOOSE e \in PetscErrs : TRUE,
          x |-> x, reason |-> KSPReason.iterating, its |-> 0, thrown |-> FALSE]
  ELSE IF VecIsZero(b)
    THEN [ierr |-> 0, x |-> NewVec(VecLen(b)), reason |-> KSPReason.atol, its |-> 0,
          thrown |-> FALSE]
  ELSE IF MultiplyThrows(b)
    THEN [ierr |-> 0, x |-> NewVec(VecLen(b)), reason |-> KSPReason.iterating, its |-> 0,
          thrown |-> TRUE]
  ELSE LET K == KrylovVecs(b, MaxIts)
           r == KSPIterate(K, b, 1)
       IN [ierr |-> 0, x |-> r.x, reason |-> r.reason, its |-> r.its, thrown |-> FALSE]

\* ierr = KSPGetConvergedReason(ksp, &reason): on an error status the local
\* variable reason keeps its uninitialised value
KSPGetConvergedReason(kspReason, fault, junk) ==
  IF fault # 0 THEN [ierr |-> fault, reason |-> junk]
  ELSE [ierr |-> 0, reason |-> kspReason]

-----------------------------------------------------------------------------
(* The record of a call *)

\* events of one multiply callback: T tmpField(ctx->localmesh); tmpField.allocate();
\* petscVecToField(v1, tmpField); ctx->operator()(tmpField); fieldToPetscVec(tmpField2, v2)
MultEvents == <<"allocate_tmpField", "unpack", "apply", "pack">>

RECURSIVE Repeat(_, _)
Repeat(seq, n) == IF n <= 0 THEN << >> ELSE seq \o Repeat(seq, n - 1)

Count(seq, e) == Cardinality({k \in DOMAIN seq : seq[k] = e})

NoCall ==
  [op |-> "none", func |-> "none", arg |-> NoField, outcome |-> "none", exception |-> "none",
   result |-> NoField, reason |-> 0, status |-> 0, ret |-> FALSE, tol |-> 0,
   trace |-> << >>, solveStatus |-> 0, reasonStatus |-> 0,
   \* the caller's argument and the result it kept from the call before, after the call
   argAfter |-> NoField, kept |-> NoField]

-----------------------------------------------------------------------------
(* setup() *)

\* setup() without its guard
SetupRejectedNever == FALSE

\* if (doneSetup) throw BoutException("... already been setup.")
SetupRejected == doneSetup

\* for (const auto &i : tmp) nlocal++
CountLocal(m) == Len(Region(m))

\* the backend calls of setup(), in order
SetupSteps ==
  <<"MatCreateShell", "MatCreateVecs", "MatShellSetOperation", "KSPCreate",
    "KSPSetOperators", "KSPSetOptionsPrefix", "KSPSetFromOptions", "KSPSetUp">>

\* step number s ran and reported no error, when step failStep (0: none) fails
StepDone(s, failStep) == failStep = 0 \/ s < failStep

\* a setup() that sets the flag before its backend steps
SetupFlagSetFirst(failStep) == TRUE

\* doneSetup = true is the last statement: reached when no CHKERRQ returned
SetupCompleted(failStep) == failStep = 0

\* the session after setup() ran with backend step failStep failing with ierr
SetupSession(failStep, ierr, junkStatus) ==
  LET nlocal == CountLocal(localmesh)
      mat1 == IF StepDone(1, failStep)
                THEN [st |-> "live", nlocal |-> nlocal, ctx |-> "this", mult |-> "none"]
                ELSE matOperator
      mat3 == IF StepDone(3, failStep) THEN [mat1 EXCEPT !.mult = "functionWrapper"] ELSE mat1
      ksp4 == IF StepDone(4, failStep)
                THEN [st |-> "live", operators |-> StepDone(5, failStep),
                      prefix |-> IF StepDone(6, failStep) THEN "invert_" ELSE "",
                      fromOptions |-> StepDone(7, failStep),
                      setUp |-> StepDone(8, failStep),
                      reason |-> KSPReason.iterating]
                ELSE ksp
  IN [matOperator |-> mat3,
      rhs |-> IF StepDone(2, failStep) THEN NewVec(nlocal) ELSE rhs,
      lhs |-> IF StepDone(2, failStep) THEN NewVec(nlocal) ELSE lhs,
      ksp |-> ksp4,
      doneSetup |-> SetupCompleted(failStep),
      \* CHKERRQ returns ierr; a setup() that reaches its end returns no value
      status |-> IF failStep = 0 THEN junkStatus ELSE ierr,
      trace |-> IF failStep = 0 THEN SetupSteps ELSE SubSeq(SetupSteps, 1, failStep)]

setup(failStep, ierr, junkStatus) ==
  IF SetupRejected
    THEN /\ last' = [NoCall EXCEPT !.op = "setup", !.outcome = "usage_error",
                                   !.exception = "BoutException"]
         /\ UNCHANGED <<doneSetup, matOperator, rhs, lhs, ksp>>
    ELSE LET s == SetupSession(failStep, ierr, junkStatus)
         IN /\ matOperator' = s.matOperator
            /\ rhs' = s.rhs
            /\ lhs' = s.lhs
            /\ ksp' = s.ksp
            /\ doneSetup' = s.doneSetup
            /\ last' = [NoCall EXCEPT !.op = "setup", !.outcome = "returned",
                                      !.status = s.status, !.trace = s.trace]

-----------------------------------------------------------------------------
(* invert() *)

\* invert() without its guard
InvertRejectedNever == FALSE

\* a guard that also turns away a session whose latest solve failed
InvertRejectedAfterFailure == ~doneSetup \/ last.outcome = "solve_failed"

\* if (!doneSetup) throw BoutException("... has not been setup.")
InvertRejected == ~doneSetup

\* ASSERT2(localmesh == rhsField.getMesh()) throws when CHECK >= 2
MeshAssertFails(rhsField) == CHECK >= 2 /\ localmesh # rhsField.mesh

\* if (reason <= 0) throw BoutException("KSPSolve failed with reason %d.", reason)
SolveFailed(reason) == reason <= 0

InvertOutcome(outcome, exception, result, reason, rhs1, lhs1, kspReason, trace, st1, st2) ==
  [outcome |-> outcome, exception |-> exception, result |-> result, reason |-> reason,
   rhs |-> rhs1, lhs |-> lhs1, kspReason |-> kspReason, trace |-> trace,
   solveStatus |-> st1, reasonStatus |-> st2]

\* invert() from the return of KSPSolve on; s is what KSPSolve gave
InvertSolved(rhs1, s, env) ==
  LET got == KSPGetConvergedReason(s.reason, env.reasonFault, env.junkReason)
      solved == <<"pack", "KSPSolve">> \o Repeat(MultEvents, s.its)
  IN IF s.thrown
       \* the error of the bound function passes through KSPSolve and invert()
       THEN InvertOutcome("operator_error", "OperatorException", NoField, 0, rhs1, s.x,
                          s.reason,
                          <<"pack", "KSPSolve", "allocate_tmpField", "unpack", "apply">>,
                          0, 0)
     ELSE IF s.ierr # 0
       \* CHKERRQ(ierr): return ierr, converted to a field
       THEN InvertOutcome("returned", "none", FieldFromScalar(s.ierr), 0, rhs1, s.x,
                          s.reason, solved, s.ierr, 0)
     ELSE IF SolveFailed(got.reason)
       THEN InvertOutcome("solve_failed", "BoutException", NoField, got.reason, rhs1,
                          s.x, s.reason, solved \o <<"KSPGetConvergedReason">>,
                          0, got.ierr)
     ELSE InvertOutcome("returned", "none",
                        petscVecToField(s.x, Allocate(localmesh), Unset),
                        got.reason, rhs1, s.x, s.reason,
                        solved \o <<"KSPGetConvergedReason", "allocate", "unpack">>,
                        0, got.ierr)

\* invert() from the packing of the right-hand side on; rhs1 is the packed Vec
InvertPacked(rhs1, lhs0, env) ==
  InvertSolved(rhs1, KSPSolve(rhs1, lhs0, env.solveFault), env)

\* invert(rhsField) on a session whose Vecs are rhs0, lhs0 and whose solver holds
\* reason0.  env: the status of KSPSolve and of KSPGetConvergedReason, the value
\* an uninitialised reason holds, and whether an out-of-bounds write crashes.
invert(rhsField, rhs0, lhs0, reason0, env) ==
  IF InvertRejected
    THEN InvertOutcome("usage_error", "BoutException", NoField, 0, rhs0, lhs0, reason0,
                       << >>, 0, 0)
  ELSE IF MeshAssertFails(rhsField)
    THEN InvertOutcome("assert_error", "BoutException", NoField, 0, rhs0, lhs0, reason0,
                       << >>, 0, 0)
  ELSE IF OutOfBounds(rhsField, rhs0) /\ env.crash
    THEN InvertOutcome("crash", "none", NoField, 0, fieldToPetscVec(rhsField, rhs0),
                       lhs0, reason0, <<"pack">>, 0, 0)
  ELSE InvertPacked(fieldToPetscVec(rhsField, rhs0), lhs0, env)

\* petscVecToField(lhs, rhsField): the solution unpacked into the argument
UnpackTargetArgument == "rhsField"

\* petscVecToField(lhs, lhsField): the field object the solution is unpacked into
UnpackTarget == "lhsField"

\* return lhsField
ReturnedObject == "lhsField"

\* The field objects a call of invert() can name, after the call with outcome r:
\* rhsField, the caller's argument (a const reference); kept, the result the
\* caller kept from the call before; lhsField, the local the call allocates.
InvertFields(rhsField, kept, r) ==
  LET before == [rhsField |-> rhsField, kept |-> kept, lhsField |-> NoField]
  IN IF Count(r.trace, "allocate") = 1
       THEN [before EXCEPT ![UnpackTarget] =
                              petscVecToField(r.lhs, Allocate(localmesh), Unset)]
       ELSE before

\* the result the caller holds from the latest call, if that was a returning invert()
KeptResult == IF last.op = "invert" /\ last.outcome = "returned" THEN last.result ELSE NoField

InvertEnvs ==
  {env \in [solveFault : {0} \cup PetscErrs, reasonFault : {0} \cup PetscErrs,
            junkReason : JunkReasons, crash : BOOLEAN] :
     /\ env.reasonFault = 0 => env.junkReason = 2
     /\ env.solveFault # 0 => env.reasonFault = 0}

\* the environments that differ for this argument
EnvsFor(rhsField) ==
  {env \in InvertEnvs : env.crash => OutOfBounds(rhsField, rhs)}

-----------------------------------------------------------------------------
(* verify() *)

\* #if CHECK > 1
VerifyEnabled == CHECK > 1

Abs(x) == IF x < 0 THEN -x ELSE x

RECURSIVE MaxOf(_, _)
MaxOf(data, n) ==
  IF n = 0 THEN 0
  ELSE LET m == MaxOf(data, n - 1) IN IF data[n] > m THEN data[n] ELSE m

\* max(abs(applied - rhs), true)
MaxAbsDiff(applied, rhsField) ==
  MaxOf([i \in DOMAIN rhsField.data |-> Abs(applied.data[i] - rhsField.data[i])],
        Cardinality(DOMAIN rhsField.data))

\* the comparison with <= in place of <
VerifyPassesAtTol(maxDiff, tol) == maxDiff <= tol

\* return maxDiff < tol
VerifyPasses(maxDiff, tol) == maxDiff < tol

\* verify(rhsField, tol): the outcome of the invert it runs, the boolean it returns
verify(rhsField, tol, env) ==
  IF ~VerifyEnabled
    THEN [inv |-> InvertOutcome("none", "none", NoField, 0, rhs, lhs, ksp.reason,
                                << >>, 0, 0),
          outcome |-> "returned", ret |-> TRUE, trace |-> << >>]
  ELSE
    LET r == invert(rhsField, rhs, lhs, ksp.reason, env) IN
    IF r.outcome # "returned"
      THEN [inv |-> r, outcome |-> r.outcome, ret |-> FALSE, trace |-> r.trace]
    ELSE IF ApplyOperator(r.result) = Thrown
      \* operator()(result) raises: the error leaves verify()
      THEN [inv |-> [r EXCEPT !.exception = "OperatorException", !.result = NoField],
            outcome |-> "operator_error", ret |-> FALSE, trace |-> r.trace \o <<"apply">>]
    ELSE LET applied == ApplyOperator(r.result)
             maxDiff == MaxAbsDiff(applied, rhsField)
         IN [inv |-> r, outcome |-> "returned", ret |-> VerifyPasses(maxDiff, tol),
             trace |-> r.trace \o <<"apply">>]

\* tolerances callers pass
Tolerances == {0, 1}

-----------------------------------------------------------------------------
(* The session: construction and calls *)

\* CHECK levels of a build
CheckLevels == {1, 2}

UninitMat == [st |-> "uninit", nlocal |-> 0, ctx |-> "none", mult |-> "none"]
UninitKSP ==
  [st |-> "uninit", operators |-> FALSE, prefix |-> "", fromOptions |-> FALSE,
   setUp |-> FALSE, reason |-> KSPReason.iterating]

\* a call that ended in a crash ended the process; a destroyed session is gone
Alive == last.outcome # "crash" /\ mLast.outcome # "crash" /\ last.op # "destroy"

NoMarshal ==
  [op |-> "none", outcome |-> "none", field |-> NoField, vecLen |-> 0,
   oob |-> FALSE, copied |-> 0]

MarshalIdle ==
  /\ mVec = UninitVec
  /\ mSrc = NoField
  /\ mDst = NoField
  /\ mLast = NoMarshal

\* two sessions constructed in one process
SessionIds == {"A", "B"}
\* the Options *opt argument of a constructor call: none, or a section of the caller's
OptArgs == {"none", "solverA", "solverB"}
\* opt ? opt : Options::getRoot()->getSection("invertableOperator")
DefaultSection == "invertableOperator"
\* KSPSetOptionsPrefix(ksp, "invert_")
OptionsPrefix == "invert_"
\* the prefixes a user sets solver options under: -<prefix>ksp_type <type>
Prefixes == {OptionsPrefix, "solverA_", "solverB_"}
KspTypes == {"cg", "bicg"}
\* the solver type of a KSP no option names
DefaultKspType == "gmres"

NoSession == [st |-> "none", opt |-> "none", prefix |-> "", kspType |-> "none"]

ConfigIdle ==
  /\ sessions = [s \in SessionIds |-> NoSession]
  /\ optionsDB = [p \in Prefixes |-> "unset"]

\* the processes of one session (BoutComm::get())
Ranks == {1, 2}

NoCollective == [entered |-> {}, done |-> FALSE, reason |-> KSPReason.iterating]

\* every process has set the session up and made no invert() call yet
RanksIdle ==
  /\ ranks = [p \in Ranks |-> [pc |-> "idle", outcomes |-> << >>]]
  /\ coll = [n \in 1..MaxCalls |-> NoCollective]

\* the func argument of the constructor calls: none, or multiplication by 2
CtorArgs == {"default", "twice"}
\* const function_signature &func = identity<T>
DefaultFunction == "identity"

\* InvertableOperator(func = identity<T>, opt = nullptr, localmesh = nullptr)
Init ==
  /\ \E func \in CtorArgs :
        /\ operatorFunction = (IF func = "default" THEN DefaultFunction ELSE func)
        /\ last = [NoCall EXCEPT !.op = "construct", !.func = func, !.outcome = "returned"]
  /\ localmesh = GlobalMesh
  /\ doneSetup = FALSE
  /\ matOperator = UninitMat
  /\ rhs = UninitVec
  /\ lhs = UninitVec
  /\ ksp = UninitKSP
  /\ CHECK \in CheckLevels
  /\ MarshalIdle
  /\ ConfigIdle
  /\ RanksIdle

SetupAction ==
  /\ Alive
  /\ \E failStep \in 0..Len(SetupSteps), ierr \in PetscErrs, junkStatus \in {0} \cup PetscErrs :
        setup(failStep, ierr, junkStatus)
  /\ UNCHANGED <<operatorFunction, localmesh, CHECK, marshalVars, configVars, rankVars>>

InvertAction ==
  /\ Alive
  /\ \E rhsField \in SessionInputs :
       \E env \in EnvsFor(rhsField) :
          \E r \in {invert(rhsField, rhs, lhs, ksp.reason, env)} :
           \E f \in {InvertFields(rhsField, KeptResult, r)} :
             /\ rhs' = r.rhs
             /\ lhs' = r.lhs
             /\ ksp' = [ksp EXCEPT !.reason = r.kspReason]
             /\ last' = [NoCall EXCEPT !.op = "invert", !.arg = rhsField,
                                       !.outcome = r.outcome, !.exception = r.exception,
                                       !.result = r.result, !.reason = r.reason,
                                       !.trace = r.trace, !.solveStatus = r.solveStatus,
                                       !.reasonStatus = r.reasonStatus,
                                       !.argAfter = f.rhsField, !.kept = f.kept]
  /\ UNCHANGED <<operatorFunction, localmesh, doneSetup, matOperator, CHECK, marshalVars, configVars, rankVars>>

VerifyAction ==
  /\ Alive
  /\ \E rhsField \in SessionInputs, tol \in Tolerances :
       \E env \in EnvsFor(rhsField) :
          \E v \in {verify(rhsField, tol, env)} :
             /\ rhs' = v.inv.rhs
             /\ lhs' = v.inv.lhs
             /\ ksp' = [ksp EXCEPT !.reason = v.inv.kspReason]
             /\ last' = [NoCall EXCEPT !.op = "verify", !.arg = rhsField, !.tol = tol,
                                       !.outcome = v.outcome,
                                       !.exception = v.inv.exception,
                                       !.result = v.inv.result, !.reason = v.inv.reason,
                                       !.ret = v.ret, !.trace = v.trace,
                                       !.solveStatus = v.inv.solveStatus,
                                       !.reasonStatus = v.inv.reasonStatus]
  /\ UNCHANGED <<operatorFunction, localmesh, doneSetup, matOperator, CHECK, marshalVars, configVars, rankVars>>

\* T apply(const T& input) { return operator()(input); }
ApplyAction ==
  /\ Alive
  /\ \E input \in SessionInputs :
        last' = IF ApplyOperator(input) = Thrown
                  THEN [NoCall EXCEPT !.op = "apply", !.arg = input,
                                      !.outcome = "operator_error",
                                      !.exception = "OperatorException",
                                      !.trace = <<"apply">>]
                  ELSE [NoCall EXCEPT !.op = "apply", !.arg = input,
                                      !.outcome = "returned",
                                      !.result = ApplyOperator(input),
                                      !.trace = <<"apply">>]
  /\ UNCHANGED <<sessionVars, marshalVars, configVars, rankVars>>

\* void setOperatorFunction(const function_signature& func) { operatorFunction = func; }
SetOperatorFunctionAction ==
  /\ Alive
  /\ \E func \in OperatorFunctions :
        /\ operatorFunction' = func
        /\ last' = [NoCall EXCEPT !.op = "setOperatorFunction", !.func = func,
                                  !.outcome = "returned"]
  /\ UNCHANGED <<localmesh, doneSetup, matOperator, rhs, lhs, ksp, CHECK, marshalVars, configVars, rankVars>>

Next ==
  \/ SetupAction
  \/ InvertAction
  \/ VerifyAction
  \/ ApplyAction
  \/ SetOperatorFunctionAction

Spec == Init /\ [][Next]_vars

\* setOperatorFunction(func) with a func that raises an error when called
BindThrowingFunctionAction ==
  /\ Alive
  /\ operatorFunction' = ThrowingFunction
  /\ last' = [NoCall EXCEPT !.op = "setOperatorFunction", !.func = ThrowingFunction,
                            !.outcome = "returned"]
  /\ UNCHANGED <<localmesh, doneSetup, matOperator, rhs, lhs, ksp, CHECK, marshalVars,
                 configVars, rankVars>>

\* a session whose bound function may raise an error
NextThrow ==
  \/ SetupAction
  \/ InvertAction
  \/ VerifyAction
  \/ ApplyAction
  \/ BindThrowingFunctionAction

SpecThrow == Init /\ [][NextThrow]_vars

-----------------------------------------------------------------------------
(* Two sessions of one process and the solver options they read *)

\* InvertableOperator(func, opt, localmesh): opt is stored
ConstructSessionAction ==
  /\ \E s \in SessionIds, optArg \in OptArgs :
        /\ sessions[s].st = "none"
        /\ sessions' = [sessions EXCEPT ![s] =
              [NoSession EXCEPT !.st = "constructed",
                                !.opt = IF optArg = "none" THEN DefaultSection ELSE optArg]]
  /\ UNCHANGED <<sessionVars, last, marshalVars, optionsDB, rankVars>>

\* the user names a solver type under a prefix: -<prefix>ksp_type <type>
SetOptionAction ==
  /\ \E p \in Prefixes, t \in KspTypes : optionsDB' = [optionsDB EXCEPT ![p] = t]
  /\ UNCHANGED <<sessionVars, last, marshalVars, sessions, rankVars>>

\* KSPSetFromOptions(ksp): the solver takes the type the database names under
\* the solver's prefix
KSPSetFromOptions(prefix) ==
  IF optionsDB[prefix] = "unset" THEN DefaultKspType ELSE optionsDB[prefix]

\* setup() of session s, as far as the options go:
\* KSPSetOptionsPrefix(ksp, "invert_"); KSPSetFromOptions(ksp)
SessionSetupAction ==
  /\ \E s \in SessionIds :
        /\ sessions[s].st = "constructed"
        /\ sessions' = [sessions EXCEPT ![s] =
              [@ EXCEPT !.st = "setup", !.prefix = OptionsPrefix,
                        !.kspType = KSPSetFromOptions(OptionsPrefix)]]
  /\ UNCHANGED <<sessionVars, last, marshalVars, optionsDB, rankVars>>

NextConfig ==
  \/ ConstructSessionAction
  \/ SetOptionAction
  \/ SessionSetupAction

SpecConfig == Init /\ [][NextConfig]_vars

-----------------------------------------------------------------------------
(* The processes of one session, each making the session's invert() calls *)

\* the number of the invert() call process p is in, or makes next
CallOf(p) == Len(ranks[p].outcomes) + 1

\* what process p records of a call: how invert() ended and the reason it saw
RankOutcome(r) == [outcome |-> r.outcome, reason |-> r.reason]

\* what KSPSolve hands back on one process: its status there, and the reason
\* the solve ended with on all of them
LocalSolve(ierr, reason) ==
  [ierr |-> ierr, x |-> NewVec(CountLocal(localmesh)), reason |-> reason, its |-> 0,
   thrown |-> FALSE]

\* invert() on process p up to KSPSolve: the call either reports an error
\* status on this process before it joins the others (CHKERRQ then returns), or
\* joins the collective solve
RankEnterAction ==
  /\ \E p \in Ranks, fault \in {0} \cup PetscErrs :
        /\ ranks[p].pc = "idle"
        /\ CallOf(p) <= MaxCalls
        /\ IF fault # 0
             THEN \E r \in {InvertSolved(NewVec(CountLocal(localmesh)),
                                          LocalSolve(fault, KSPReason.iterating),
                                          [solveFault |-> fault, reasonFault |-> 0,
                                           junkReason |-> 2, crash |-> FALSE])} :
                     /\ ranks' = [ranks EXCEPT ![p].outcomes = Append(@, RankOutcome(r))]
                     /\ UNCHANGED coll
             ELSE /\ ranks' = [ranks EXCEPT ![p].pc = "in_solve"]
                  /\ coll' = [coll EXCEPT ![CallOf(p)].entered = @ \cup {p}]
  /\ UNCHANGED <<sessionVars, last, marshalVars, configVars>>

\* the collective solve of call n ends once every process has joined it; all
\* processes get the same reason
CollectiveSolveAction ==
  /\ \E n \in 1..MaxCalls, reason \in {KSPReason.rtol, KSPReason.its} :
        /\ coll[n].entered = Ranks
        /\ ~coll[n].done
        /\ coll' = [coll EXCEPT ![n].done = TRUE, ![n].reason = reason]
  /\ UNCHANGED <<sessionVars, last, marshalVars, configVars, ranks>>

\* invert() on process p from the return of KSPSolve on
RankLeaveAction ==
  /\ \E p \in Ranks :
       \E env \in {e \in InvertEnvs : e.solveFault = 0 /\ ~e.crash} :
          /\ ranks[p].pc = "in_solve"
          /\ coll[CallOf(p)].done
          /\ \E r \in {InvertSolved(NewVec(CountLocal(localmesh)),
                                     LocalSolve(0, coll[CallOf(p)].reason), env)} :
                ranks' = [ranks EXCEPT ![p].pc = "idle",
                                       ![p].outcomes = Append(@, RankOutcome(r))]
  /\ UNCHANGED <<sessionVars, last, marshalVars, configVars, coll>>

\* process p does not make a call the others make
RankSkipAction ==
  /\ \E p \in Ranks :
        /\ ranks[p].pc = "idle"
        /\ CallOf(p) <= MaxCalls
        /\ ranks' = [ranks EXCEPT ![p].outcomes =
                                     Append(@, [outcome |-> "skipped", reason |-> 0])]
  /\ UNCHANGED <<sessionVars, last, marshalVars, configVars, coll>>

NextRanks ==
  \/ RankEnterAction
  \/ CollectiveSolveAction
  \/ RankLeaveAction
  \/ RankSkipAction

SpecRanks == Init /\ [][NextRanks]_vars

-----------------------------------------------------------------------------
(* ~InvertableOperator() *)

\* the handles the destructor passes to KSPDestroy, MatDestroy, VecDestroy and
\* VecDestroy, in that order
DestroyCalls == <<"KSPDestroy", "MatDestroy", "VecDestroy", "VecDestroy">>
DestroyHandles == <<ksp, matOperator, rhs, lhs>>

\* number of the first call that is handed a handle no one initialised and whose
\* junk is not null (0: no such call).  XDestroy(&obj) returns at once on a null
\* handle and dereferences any other.
FirstWildHandle(handles, junkNull) ==
  LET wild == {k \in DOMAIN handles : handles[k].st = "uninit" /\ ~junkNull}
  IN IF wild = {} THEN 0 ELSE CHOOSE k \in wild : \A j \in wild : k <= j

\* XDestroy(&obj), call number k of the destructor, which stops at call stop
DestroyObject(obj, k, stop) ==
  IF obj.st = "live" /\ (stop = 0 \/ k < stop) THEN [obj EXCEPT !.st = "destroyed"] ELSE obj

\* number of handles passed to a Destroy call while uninitialised
UninitReads(handles, stop) ==
  Cardinality({k \in DOMAIN handles :
                 handles[k].st = "uninit" /\ (stop = 0 \/ k <= stop)})

\* ~InvertableOperator(): junkNull says whether the uninitialised handles happen
\* to hold null
DestroyAction ==
  /\ Alive
  /\ \E junkNull \in BOOLEAN :
       \E stop \in {FirstWildHandle(DestroyHandles, junkNull)} :
          /\ ksp' = DestroyObject(ksp, 1, stop)
          /\ matOperator' = DestroyObject(matOperator, 2, stop)
          /\ rhs' = DestroyObject(rhs, 3, stop)
          /\ lhs' = DestroyObject(lhs, 4, stop)
          /\ last' = [NoCall EXCEPT
                        !.op = "destroy",
                        !.outcome = IF stop = 0 THEN "returned" ELSE "crash",
                        !.status = UninitReads(DestroyHandles, stop),
                        !.trace = IF stop = 0 THEN DestroyCalls
                                  ELSE SubSeq(DestroyCalls, 1, stop)]
  /\ UNCHANGED <<operatorFunction, localmesh, doneSetup, CHECK, marshalVars, configVars, rankVars>>

\* the life of one session: set up, used, destroyed
NextLifecycle ==
  \/ SetupAction
  \/ InvertAction
  \/ DestroyAction

SpecLifecycle == Init /\ [][NextLifecycle]_vars

-----------------------------------------------------------------------------
(* The marshalling functions, called on a caller's own Vec and fields *)

\* lengths of the Vecs a caller creates
VecLens == {MeshSize(m) : m \in Meshes}
\* values a read outside the array can give
JunkValues == {Unset, 9}

\* VecCreate...: a caller's new Vec of n elements
VecCreateAction ==
  /\ Alive
  /\ \E n \in VecLens : mVec' = NewVec(n)
  /\ mSrc' = NoField
  /\ mDst' = NoField
  /\ mLast' = [NoMarshal EXCEPT !.op = "create", !.outcome = "done",
                                !.vecLen = VecLen(mVec')]
  /\ UNCHANGED <<sessionVars, last, configVars, rankVars>>

\* fieldToPetscVec(in, mVec)
PackAction ==
  /\ Alive
  /\ \E in \in AllFieldInputs :
       IF mVec.st # "live"
         \* ierr = VecGetArray(out, &vecData); CHKERRQ(ierr);
         THEN /\ mLast' = [NoMarshal EXCEPT !.op = "pack", !.outcome = "status_error",
                                            !.field = in]
              /\ UNCHANGED <<mVec, mSrc, mDst>>
         ELSE /\ mVec' = fieldToPetscVec(in, mVec)
              /\ mSrc' = in
              /\ UNCHANGED mDst
              /\ \E outcome \in (IF OutOfBounds(in, mVec) THEN {"done", "crash"} ELSE {"done"}) :
                    mLast' = [op |-> "pack", outcome |-> outcome, field |-> in,
                              vecLen |-> VecLen(mVec), oob |-> OutOfBounds(in, mVec),
                              copied |-> Copied(in, mVec)]
  /\ UNCHANGED <<sessionVars, last, configVars, rankVars>>

\* T out(m); out.allocate(); petscVecToField(mVec, out)
UnpackAction ==
  /\ Alive
  /\ \E m \in Meshes, junk \in JunkValues :
       LET out == Allocate(m) IN
       IF mVec.st # "live"
         \* ierr = VecGetArrayRead(in, &vecData); CHKERRQ(ierr);
         THEN /\ mLast' = [NoMarshal EXCEPT !.op = "unpack", !.outcome = "status_error",
                                            !.field = out]
              /\ UNCHANGED <<mVec, mSrc, mDst>>
         ELSE /\ mDst' = petscVecToField(mVec, out, junk)
              /\ UNCHANGED <<mVec, mSrc>>
              /\ \E outcome \in (IF OutOfBounds(out, mVec) THEN {"done", "crash"} ELSE {"done"}) :
                    mLast' = [op |-> "unpack", outcome |-> outcome, field |-> mDst',
                              vecLen |-> VecLen(mVec), oob |-> OutOfBounds(out, mVec),
                              copied |-> Copied(out, mVec)]
  /\ UNCHANGED <<sessionVars, last, configVars, rankVars>>

NextMarshal ==
  \/ VecCreateAction
  \/ PackAction
  \/ UnpackAction

SpecMarshal == Init /\ [][NextMarshal]_vars

-----------------------------------------------------------------------------
(* Properties *)

OnMesh(field) == field.mesh = localmesh
IsZeroField(field) == \A i \in DOMAIN field.data : field.data[i] = 0
PackedInOrder(field, vec) ==
  \A k \in 0..(MeshSize(field.mesh) - 1) : vec.data[k] = field.data[Region(field.mesh)[k + 1]]

\* C1: a setup() on a session whose setup() has succeeded throws the usage
\* error, runs no backend step, and leaves the flag, the matrix, the Vecs, the
\* solver and the bound function as they were.
C1_SecondSetupRejected ==
  [][(doneSetup /\ last'.op = "setup") =>
       /\ last'.outcome = "usage_error"
       /\ last'.exception = "BoutException"
       /\ last'.trace = << >>
       /\ UNCHANGED <<doneSetup, matOperator, rhs, lhs, ksp, operatorFunction>>]_vars

C1_Witness == doneSetup /\ last.op = "setup" /\ last.outcome = "usage_error"

\* C2: an invert() on a session whose setup() never succeeded throws the usage
\* error before anything else: rhs is not written, no solve, no call of the
\* operator function, no field returned.
C2_InvertBeforeSetupRejected ==
  [][(~doneSetup /\ last'.op = "invert") =>
       /\ last'.outcome = "usage_error"
       /\ last'.exception = "BoutException"
       /\ last'.trace = << >>
       /\ last'.result = NoField
       /\ UNCHANGED <<rhs, lhs, ksp>>]_vars

C2_Witness == ~doneSetup /\ last.op = "invert" /\ last.outcome = "usage_error"

\* C3 (the claim as stated): after an invert() that ran the solve on a set-up
\* session, a backend reason <= 0 means Solve-Failed was thrown carrying that
\* reason, with no output field allocated or unpacked; a reason > 0 means the
\* unpacked solution was returned; and the zero operator with a non-zero
\* right-hand side ends in Solve-Failed.
C3_NonConvergenceIsSolveFailed ==
  (last.op = "invert" /\ Count(last.trace, "KSPSolve") = 1) =>
     /\ ksp.reason <= 0 =>
          /\ last.outcome = "solve_failed"
          /\ last.reason = ksp.reason
          /\ Count(last.trace, "allocate") = 0
          /\ last.result = NoField
     /\ ksp.reason > 0 =>
          /\ last.outcome = "returned"
          /\ last.result = petscVecToField(lhs, Allocate(localmesh), Unset)
     /\ (operatorFunction = "zero" /\ OnMesh(last.arg) /\ ~IsZeroField(last.arg)) =>
          last.outcome = "solve_failed"

\* C4 (the claim as stated): a field returned by invert() is the unpacked
\* solution of a solve that reported no error status, whose reason was read
\* without error status, and whose reason is > 0.
C4_ReturnedFieldIsConvergedSolution ==
  (last.op = "invert" /\ last.outcome = "returned") =>
     /\ last.solveStatus = 0
     /\ last.reasonStatus = 0
     /\ ksp.reason > 0
     /\ last.result = petscVecToField(lhs, Allocate(localmesh), Unset)

\* C5: packing a field into a Vec of its size and unpacking the Vec into a
\* freshly allocated field of the same mesh gives back the field, element for
\* element; element k of the iteration order is at array index k.
C5_RoundTrip ==
  /\ (mLast.op = "pack" /\ ~mLast.oob) => PackedInOrder(mSrc, mVec)
  /\ (mLast.op = "unpack" /\ mLast.outcome = "done" /\ mSrc # NoField
        /\ mDst.mesh = mSrc.mesh /\ VecLen(mVec) = MeshSize(mSrc.mesh)) =>
       /\ mDst.data = mSrc.data
       /\ PackedInOrder(mDst, mVec)

C5_Witness ==
  /\ mLast.op = "unpack" /\ mLast.outcome = "done"
  /\ mSrc = RampField("mesh") /\ mDst.mesh = "mesh" /\ VecLen(mVec) = MeshSize("mesh")

\* what the caller of invert() sees of a call
InvertVisible(r) == <<r.outcome, r.exception, r.result, r.reason>>

C7_DefaultIdentity ==
  /\ (last.op = "construct" /\ last.func = "default") => operatorFunction = "identity"
  /\ (operatorFunction = "identity" /\ last.op = "apply") => last.result = last.arg
  /\ (operatorFunction = "identity" /\ doneSetup /\ last.op = "invert" /\ OnMesh(last.arg)) =>
        (last.outcome = "returned" /\ last.result = last.arg)
  /\ (operatorFunction = "identity" /\ doneSetup /\ last.op = "verify" /\ OnMesh(last.arg)
        /\ last.tol > 0) =>
        (last.outcome = "returned" /\ last.ret)

\* C8 (the claim as stated): with multiplication by 2 bound, on a set-up
\* session invert of the field 2, 4, ..., 2n returns 1, 2, ..., n and verify
\* of it with a positive tolerance is true; and whenever invert(b) returns x,
\* the bound function applied to x is b.
C8_SolveCorrect ==
  /\ (operatorFunction = "twice" /\ doneSetup /\ last.op = "invert"
        /\ last.arg = RampField(localmesh)) =>
        /\ last.outcome = "returned"
        /\ last.result.data = [i \in 1..MeshSize(localmesh) |-> i]
  /\ (operatorFunction = "twice" /\ doneSetup /\ last.op = "verify"
        /\ last.arg = RampField(localmesh) /\ last.tol > 0) =>
        (last.outcome = "returned" /\ last.ret)
  /\ (doneSetup /\ last.op = "invert" /\ OnMesh(last.arg) /\ last.outcome = "returned") =>
        ApplyOperator(last.result) = last.arg

\* C9: verify(b, tol) with CHECK > 1 runs invert(b), lets its errors through,
\* applies the bound function once more to the field invert returned, and
\* returns true exactly when every |apply(x)[i] - b[i]| is < tol; with
\* CHECK <= 1 it returns true and calls nothing.
C9_Verify ==
  last.op = "verify" =>
    /\ CHECK <= 1 => (last.outcome = "returned" /\ last.ret /\ last.trace = << >>)
    /\ (CHECK > 1 /\ ~doneSetup) =>
          (last.outcome = "usage_error" /\ last.exception = "BoutException"
             /\ last.trace = << >>)
    /\ (CHECK > 1 /\ doneSetup /\ last.outcome # "returned") =>
          /\ last.outcome \in {"solve_failed", "assert_error"}
          /\ last.exception = "BoutException"
          /\ Count(last.trace, "apply") = Count(last.trace, "unpack")
    /\ (CHECK > 1 /\ last.outcome = "returned") =>
          /\ doneSetup
          /\ Count(last.trace, "KSPSolve") = 1
          /\ last.trace[Len(last.trace)] = "apply"
          \* one apply per multiply of the solve, and one more
          /\ Count(last.trace, "apply") = Count(last.trace, "pack")
          /\ last.ret = (\A i \in DOMAIN last.arg.data :
                           Abs(ApplyOperator(last.result).data[i] - last.arg.data[i]) < last.tol)

C9_Witness ==
  /\ last.op = "verify" /\ CHECK > 1 /\ last.outcome = "returned"
  /\ last.tol = 0 /\ ~last.ret
  /\ ApplyOperator(last.result) = last.arg

\* C10 (the claim as stated): a pack or unpack of a field whose element count
\* differs from the Vec's length ends in a fatal error, touches no index
\* outside the array and copies nothing.
C10_SizeMismatchFatal ==
  (mLast.op \in {"pack", "unpack"} /\ mLast.outcome # "status_error"
     /\ MeshSize(mLast.field.mesh) # mLast.vecLen) =>
     /\ mLast.outcome = "fatal_error"
     /\ ~mLast.oob
     /\ mLast.copied = 0

\* no backend object of the session is live
NoneLive == \A k \in DOMAIN DestroyHandles : DestroyHandles[k].st # "live"

\* C11 (the claim as stated): the destructor returns having released every
\* backend object that was created and having touched none that was never
\* created, whether setup() never ran, stopped part-way or succeeded.
C11_SafeDestruction ==
  last.op = "destroy" =>
     /\ last.outcome = "returned"
     /\ last.status = 0
     /\ NoneLive

\* every backend handle of the session has been initialised
NoneUninit == \A k \in DOMAIN DestroyHandles : DestroyHandles[k].st # "uninit"
\* step number k of setup() is in the trace of the latest call
StepRan(k) == k <= Len(last.trace)

\* C12 (the claim as stated): a setup() in which a backend step reports an
\* error ends in an exception, not in a returned status; the steps after the
\* failing one do not run; and the session it leaves can be destroyed safely.
C12_SetupFailureFatal ==
  [][(last'.op = "setup" /\ ~doneSetup /\ ~doneSetup') =>
       /\ last'.outcome # "returned"
       /\ last'.exception # "none"
       /\ ~StepRan(1)' => matOperator' = matOperator
       /\ ~StepRan(2)' => (rhs' = rhs /\ lhs' = lhs)
       /\ ~StepRan(4)' => ksp' = ksp
       /\ NoneUninit']_vars

\* C13: once setup() has succeeded doneSetup stays true through every later
\* call, and an invert() that follows an invert() which raised Solve-Failed is
\* not turned away: for a right-hand side of the session's mesh it runs a solve.
C13_SetupPermanent ==
  [][/\ doneSetup => doneSetup'
     /\ (doneSetup /\ last.op = "invert" /\ last.outcome = "solve_failed"
           /\ last'.op = "invert") =>
          /\ last'.outcome # "usage_error"
          /\ OnMesh(last'.arg) =>
                (Count(last'.trace, "KSPSolve") = 1
                   /\ last'.outcome \in {"returned", "solve_failed"})]_vars

\* a set-up session on which an invert() has just raised Solve-Failed
C13_Witness ==
  /\ doneSetup /\ last.op = "invert" /\ last.outcome = "solve_failed"
  /\ last.exception = "BoutException" /\ last.reason = KSPReason.breakdown

\* C14: an invert() on a set-up session leaves the caller's argument and the
\* bound function as they were, leaves the result the caller kept from the
\* call before as it was, and what it returns is its own local field (or the
\* temporary made from a status), not the argument and not the kept result.
C14_InvertArgumentReadOnly ==
  [][(doneSetup /\ last'.op = "invert") =>
       /\ last'.argAfter = last'.arg
       /\ operatorFunction' = operatorFunction
       /\ last'.kept = KeptResult
       /\ ReturnedObject \notin {"rhsField", "kept"}
       /\ (last'.outcome = "returned" /\ last'.solveStatus = 0) =>
             last'.result = InvertFields(last'.arg, KeptResult, [trace |-> last'.trace,
                                                                lhs |-> lhs'])[ReturnedObject]
       /\ last'.outcome # "returned" => last'.result = NoField]_vars

\* an invert() that returned a field different from its argument, after an
\* invert() whose result, different again, the caller kept
C14_Witness ==
  /\ doneSetup /\ last.op = "invert" /\ last.outcome = "returned"
  /\ last.kept # NoField /\ last.kept # last.result /\ last.result # last.arg
  /\ last.argAfter = RampField(localmesh)

\* C15 (the claim as stated): an invert() on a set-up session with a field of
\* another mesh than the session's ends in an error before the field is packed
\* into rhs and before the solve.
C15_CrossGridRejected ==
  [][(doneSetup /\ last'.op = "invert" /\ last'.arg.mesh # localmesh) =>
       /\ last'.outcome \in {"assert_error", "usage_error"}
       /\ last'.exception # "none"
       /\ last'.trace = << >>
       /\ rhs' = rhs]_vars

\* C16 (the claim as stated): the error of a usage violation (setup() twice,
\* invert() before setup()) and the Solve-Failed error of invert() are of
\* different kinds, so that a handler of one does not catch the other.
C16_ErrorKindsDistinct ==
  [][({last.outcome, last'.outcome} = {"usage_error", "solve_failed"}) =>
       last'.exception # last.exception]_vars

\* C17 (the claim as stated): two sessions constructed with different options
\* sections read their solver options at setup() under different prefixes.
C17_NamespacesDistinct ==
  \A s, t \in SessionIds :
     (s # t /\ sessions[s].st = "setup" /\ sessions[t].st = "setup"
        /\ sessions[s].opt # sessions[t].opt) =>
       sessions[s].prefix # sessions[t].prefix

\* process p has left call n of invert(), with a return or an exception
Completed(p, n) == n <= Len(ranks[p].outcomes) /\ ranks[p].outcomes[n].outcome # "skipped"
\* process p did not make call n
Skipped(p, n) == n <= Len(ranks[p].outcomes) /\ ranks[p].outcomes[n].outcome = "skipped"
\* process p is inside the collective solve of call n, which has not ended
Waiting(p, n) == ranks[p].pc = "in_solve" /\ CallOf(p) = n /\ ~coll[n].done

\* C18 (the claim as stated): when no process skips a call, a call of invert()
\* ends the same way on every process, with a returned solution or with
\* Solve-Failed and the same reason; no process has left a call while another
\* is still waiting in its solve; a call one process skips no other completes.
C18_CollectiveSafe ==
  \A p, q \in Ranks : \A n \in 1..MaxCalls :
     /\ (Completed(p, n) /\ Completed(q, n)
           /\ \A o \in Ranks : \A m \in 1..MaxCalls : ~Skipped(o, m)) =>
          ranks[p].outcomes[n] = ranks[q].outcomes[n]
     /\ ~(Completed(p, n) /\ Waiting(q, n))
     /\ Skipped(p, n) => ~Completed(q, n)

\* element k of f applied to the array v, written out for each function
MultiplyOracle(f, v, k) ==
  CASE f = "identity" -> v[k]
    [] f = "twice" -> 2 * v[k]
    [] f = "zero" -> 0
    [] f = "reverse" -> v[Cardinality(DOMAIN v) - 1 - k]

\* C19: a set-up session's shell matrix has one registered operation, the
\* multiply functionWrapper, and the session as its context; a multiply of
\* the right-hand-side Vec into the solution Vec overwrites it with the bound
\* function applied to the unpacked elements, element for element; and in a
\* solve every application of the function stands between the unpack and the
\* pack of one multiply.
C19_MatrixFreeMultiply ==
  /\ (last.op = "setup" /\ last.outcome = "returned" /\ doneSetup) =>
        (Count(last.trace, "MatShellSetOperation") = 1
           /\ Count(last.trace, "MatCreateShell") = 1)
  /\ doneSetup =>
        /\ matOperator.mult = "functionWrapper"
        /\ matOperator.ctx = "this"
        /\ LET v2 == functionWrapper(matOperator, rhs, lhs)
           IN /\ DOMAIN v2.data = DOMAIN rhs.data
              /\ \A k \in DOMAIN rhs.data :
                    v2.data[k] = MultiplyOracle(operatorFunction, rhs.data, k)
  /\ (last.op = "invert" /\ doneSetup) =>
        \A k \in DOMAIN last.trace :
           last.trace[k] = "apply" =>
              (last.trace[k - 1] = "unpack" /\ last.trace[k + 1] = "pack")

\* a solve through the element-reversing function that took two multiplies
C19_Witness ==
  /\ doneSetup /\ last.op = "invert" /\ last.outcome = "returned"
  /\ operatorFunction = "reverse" /\ Count(last.trace, "apply") = 2
  /\ rhs.data[0] = 2 /\ rhs.data[LocalSize - 1] = 2 * LocalSize
  /\ ~VecIsZero(lhs)

\* C20 (the claim as stated): the field the multiply unpacks the trial Vec
\* into is allocated once, in setup(), and no multiply of a later invert() or
\* verify() allocates one.
C20_ScratchAllocatedOnce ==
  /\ (last.op = "setup" /\ last.outcome = "returned" /\ doneSetup) =>
        Count(last.trace, "allocate_tmpField") = 1
  /\ (last.op \in {"invert", "verify"}) =>
        Count(last.trace, "allocate_tmpField") = 0

\* C21: when the bound function raises an error in a multiply of the solve of
\* invert(b), the error leaves invert(): no field is returned, the multiply
\* neither packs an output Vec nor returns a status, and the solve is over
\* without a convergence reason.
C21_CallbackErrorPropagates ==
  [][(doneSetup /\ operatorFunction = ThrowingFunction /\ last'.op = "invert"
        /\ Count(last'.trace, "apply") > 0) =>
       /\ last'.outcome = "operator_error"
       /\ last'.exception = "OperatorException"
       /\ last'.result = NoField
       /\ last'.trace[Len(last'.trace)] = "apply"
       /\ Count(last'.trace, "apply") = 1
       /\ Count(last'.trace, "KSPGetConvergedReason") = 0
       /\ ksp'.reason = KSPReason.iterating
       /\ VecIsZero(lhs')]_vars

\* an invert() of a non-zero right-hand side that the bound function's error ended
C21_Witness ==
  /\ doneSetup /\ operatorFunction = ThrowingFunction
  /\ last.op = "invert" /\ last.outcome = "operator_error"
  /\ last.arg = RampField(localmesh) /\ ~VecIsZero(rhs)

\* C22: setOperatorFunction(g) always returns, binds g and leaves doneSetup
\* and the backend objects alone; on a set-up session the invert() or verify()
\* right after it works with g: a converged invert(b) returns x with g(x) = b,
\* the zero map makes a non-zero b fail, and verify compares g(x) with b.
C22_LateRebinding ==
  [][/\ last'.op = "setOperatorFunction" =>
          /\ last'.outcome = "returned"
          /\ operatorFunction' = last'.func
          /\ UNCHANGED <<doneSetup, matOperator, rhs, lhs, ksp>>
     /\ (doneSetup /\ last.op = "setOperatorFunction" /\ last'.op = "invert"
           /\ OnMesh(last'.arg) /\ last'.solveStatus = 0) =>
          /\ (last'.outcome = "returned" /\ ksp'.reason > 0) =>
                ApplyFunc(last.func, last'.result) = last'.arg
          /\ (last.func = "zero" /\ ~IsZeroField(last'.arg)) => ksp'.reason <= 0
          /\ (last.func = "identity") => ksp'.reason > 0
     /\ (doneSetup /\ last.op = "setOperatorFunction" /\ last'.op = "verify"
           /\ last'.outcome = "returned" /\ CHECK > 1) =>
          last'.ret = (\A i \in DOMAIN last'.arg.data :
                         Abs(ApplyFunc(last.func, last'.result).data[i]
                               - last'.arg.data[i]) < last'.tol)]_vars

\* a set-up session whose function has just been replaced by the reversal
C22_Witness ==
  /\ doneSetup /\ last.op = "setOperatorFunction" /\ last.func = "reverse"
  /\ operatorFunction = "reverse" /\ matOperator.mult = "functionWrapper"

\* everything setup() creates exists: the shell matrix of the local size with
\* its multiply registered, both Vecs of that size, and the solver, bound to
\* the matrix, configured and set up
SetupComplete ==
  /\ matOperator.st = "live"
  /\ matOperator.nlocal = MeshSize(localmesh)
  /\ matOperator.mult = "functionWrapper"
  /\ rhs.st = "live" /\ VecLen(rhs) = MeshSize(localmesh)
  /\ lhs.st = "live" /\ VecLen(lhs) = MeshSize(localmesh)
  /\ ksp.st = "live" /\ ksp.operators /\ ksp.prefix = "invert_"
  /\ ksp.fromOptions /\ ksp.setUp

\* C23: doneSetup is true only when everything setup() creates exists; a
\* setup() that stops at a failing backend step leaves it false, after which
\* an invert() ends in the usage error and a setup() is not turned away.
C23_FlagSetLast ==
  [][/\ doneSetup' => SetupComplete'
     /\ (last'.op = "setup" /\ last'.outcome = "returned"
           /\ Len(last'.trace) < Len(SetupSteps)) => ~doneSetup'
     /\ (last'.op = "setup" /\ ~doneSetup /\ ~SetupComplete') => ~doneSetup'
     /\ (last.op = "setup" /\ ~doneSetup /\ last'.op = "invert") =>
          (last'.outcome = "usage_error" /\ last'.trace = << >>)
     /\ (last.op = "setup" /\ ~doneSetup /\ last'.op = "setup") =>
          (last'.outcome # "usage_error" /\ Len(last'.trace) > 0)]_vars

\* a setup() that stopped at its last backend step: all but KSPSetUp is done
C23_Witness ==
  /\ last.op = "setup" /\ ~doneSetup /\ last.status \in PetscErrs
  /\ Len(last.trace) = Len(SetupSteps)
  /\ ksp.st = "live" /\ ksp.fromOptions /\ ~ksp.setUp

====
